---- MODULE Spec2Model ----
(***************************************************************************)
(* A model of windows_cybergearmotortest.py: the CyberGearMotor class (CAN *)
(* frame construction, send with retry, the motor operations) and main(),  *)
(* the demonstration script with its shutdown sequence.                    *)
(*                                                                         *)
(* Python integers are unbounded, so an integer that is shifted and or-ed  *)
(* is modelled as the set of the positions of its 1 bits.  A Python float  *)
(* is an IEEE-754 double, modelled by its fields: sign s, biased exponent  *)
(* e (11 bits) and the 52 fraction bits as two 26-bit halves hi and lo.    *)
(***************************************************************************)
EXTENDS Integers, Sequences, FiniteSets, TLC

VARIABLES
    pc,              \* main(): the place control is at
    ip,              \* main(): index of the next call of the script / shutdown
    pending,         \* main(): the exception in flight while finally runs
    motor,           \* main(): the local variable motor ("None" or "obj")
    bus,             \* self.bus: "unset", "open" or "closed"
    master_id,       \* self.master_id
    last_positions,  \* self.last_positions, a dict motor_id -> float
    mv,              \* the active move_to_degrees call, or NoFrame
    op,              \* the active motor operation (enable_motor, ...), or NoFrame
    snd,             \* the active send_can_frame call, or NoFrame
    ret,             \* the value the last finished call returned
    wire,            \* the last frame bus.send accepted
    trace,           \* the send_can_frame / bus.shutdown calls made so far
    sendStat,        \* bookkeeping of the last send_can_frame call
    busSendCalls,    \* number of bus.send calls made by main() / the client's call
    shutdownCalls,   \* number of bus.shutdown calls made so far
    stubLeft,        \* the transport: fails on its next stubLeft calls; -1: at will
    calls,           \* client harness: number of top-level calls made
    enc              \* arbitration-id harness: the triple and the id computed

vars == <<pc, ip, pending, motor, bus, master_id, last_positions, mv, op, snd,
          ret, wire, trace, sendStat, busSendCalls, shutdownCalls, stubLeft,
          calls, enc>>

-----------------------------------------------------------------------------
(* Bounds of the model. *)

\* largest retry argument the client harness passes to send_can_frame
MaxRetry == 4
\* largest number of initial failures of the transport stub
MaxFail == 4
\* number of top-level calls the client harness makes
MaxCalls == 2

-----------------------------------------------------------------------------
(* Python integers under <<, >>, | and &. *)

\* the set of 1-bit positions of a non-negative integer below 2^31
BitsOf(n) ==
    {i \in 0..30 : (n \div (2^i)) % 2 = 1}

RECURSIVE ValueOf(_)
\* the integer a set of bit positions (all below 31) stands for
ValueOf(b) ==
    IF b = {} THEN 0
    ELSE LET i == CHOOSE j \in b : TRUE
         IN  2^i + ValueOf(b \ {i})

Shl(b, k) ==
    {i + k : i \in b}

Shr(b, k) ==
    {i - k : i \in {j \in b : j >= k}}

BitOr(a, b) ==
    a \cup b

BitAnd(a, b) ==
    a \cap b

-----------------------------------------------------------------------------
(* Python floats (IEEE-754 doubles) and struct.pack('<f', v). *)

Dbl(s, e, hi, lo) ==
    [s |-> s, e |-> e, hi |-> hi, lo |-> lo]

F_zero     == Dbl(0, 0, 0, 0)                    \* 0.0
F_negzero  == Dbl(1, 0, 0, 0)                    \* -0.0
F_2        == Dbl(0, 1024, 0, 0)                 \* 2.0
F_5        == Dbl(0, 1025, 16777216, 0)          \* 5.0
F_12       == Dbl(0, 1026, 33554432, 0)          \* 12.0
F_rad15    == Dbl(0, 1021, 3167374, 2978661)     \* 0.2617993877991494
F_negrad15 == Dbl(1, 1021, 3167374, 2978661)     \* -0.2617993877991494
F_tenth    == Dbl(0, 1019, 40265318, 26843546)   \* 0.1
F_1e39     == Dbl(0, 1152, 31498749, 10242589)   \* 1e39
F_inf      == Dbl(0, 2047, 0, 0)                 \* float('inf')
F_tiny     == Dbl(0, 874, 0, 1)                  \* just above 2**-149
F_halfmax  == Dbl(0, 1150, 67108863, 67108863)   \* just below 2**128

\* the 53 significand bits of a normal double, most significant first
SigBits(v) ==
    [i \in 1..53 |->
        IF i = 1 THEN 1
        ELSE IF i <= 27 THEN (v.hi \div (2^(27 - i))) % 2
        ELSE (v.lo \div (2^(53 - i))) % 2]

RECURSIVE BitsValue(_, _)
\* the integer whose binary digits are the first k elements of bits
BitsValue(bits, k) ==
    IF k <= 0 THEN 0 ELSE 2 * BitsValue(bits, k - 1) + bits[k]

\* the four bytes of a single with sign s, biased exponent e8 and fraction m23,
\* least significant byte first
SingleBytes(s, e8, m23) ==
    << m23 % 256,
       (m23 \div 256) % 256,
       (e8 % 2) * 128 + (m23 \div 65536),
       s * 128 + (e8 \div 2) >>

\* the double v rounded to the nearest single (ties to even), as the C cast
\* (float)v does: [s, e8, m23], where e8 = 255 with m23 = 0 is an infinity
RoundToSingle(v) ==
    IF v.e = 2047 THEN
        [s |-> v.s, e8 |-> 255, m23 |-> v.hi \div 8]
    ELSE IF v.e = 0 THEN
        [s |-> v.s, e8 |-> 0, m23 |-> 0]
    ELSE
        LET E    == v.e - 1023
            \* significand bits kept: 24 for a normal single, fewer below 2^-126
            k    == IF E >= -126 THEN 24 ELSE 24 - (-126 - E)
            sig  == SigBits(v)
            kept == IF k <= 0 THEN 0 ELSE BitsValue(sig, k)
            rnd  == IF k < 0 THEN 0 ELSE sig[k + 1]
            more == \E i \in 1..53 : i > k + 1 /\ i >= 1 /\ sig[i] = 1
            up   == rnd = 1 /\ (more \/ kept % 2 = 1)
            q    == IF up THEN kept + 1 ELSE kept
        IN  IF E >= -126 THEN
                IF q = 16777216
                THEN [s |-> v.s, e8 |-> E + 128, m23 |-> 0]
                ELSE [s |-> v.s, e8 |-> E + 127, m23 |-> q - 8388608]
            ELSE
                IF q = 8388608
                THEN [s |-> v.s, e8 |-> 1, m23 |-> 0]
                ELSE [s |-> v.s, e8 |-> 0, m23 |-> q]

\* struct.pack('<f', v): the four bytes, or the OverflowError it raises when a
\* finite v rounds to an infinity
pack_f(v) ==
    LET r == RoundToSingle(v)
    IN  IF v.e # 2047 /\ r.e8 >= 255
        THEN [err |-> "OverflowError", bytes |-> <<>>]
        ELSE [err |-> "none", bytes |-> SingleBytes(r.s, r.e8, r.m23)]

\* math.radians over the degrees the callers pass
radians(degrees) ==
    CASE degrees = 15  -> F_rad15
      [] degrees = -15 -> F_negrad15
      [] degrees = 0   -> F_zero

-----------------------------------------------------------------------------
(* Constants of the program. *)

\* self.master_id
MASTER_ID == 253
\* main(): MOTOR_ID
MOTOR_ID == 1
\* send_can_frame: the default of retry
DEFAULT_RETRY == 3
\* the command ids the motor operations pass to send_can_frame
CMD_ENABLE == 3
CMD_DISABLE == 4
CMD_STOP == 0
CMD_RESET == 6
CMD_WRITE == 18

\* main(): SPEED and MAX_TORQUE
SPEED == F_2
MAX_TORQUE == F_12

Zeros(n) ==
    [i \in 1..n |-> 0]

NoFrame == [fn |-> "none"]
NoMsg   == [arbitration_id |-> {}, data |-> <<>>, is_extended_id |-> FALSE]
NoStat  == [retry |-> 0, stub |-> 0, transmits |-> 0, accepted |-> 0,
            settles |-> 0, backoffs |-> 0, done |-> FALSE, result |-> FALSE]
NoEnc   == [cmd |-> 0, ctrl |-> 0, motor |-> 0, id |-> {}, done |-> FALSE]
EmptyDict == <<>>

\* d[k] = v of a Python dict
DictSet(d, k, v) ==
    [x \in (DOMAIN d) \cup {k} |-> IF x = k THEN v ELSE d[x]]

Idle ==
    mv.fn = "none" /\ op.fn = "none" /\ snd.fn = "none"

-----------------------------------------------------------------------------
(* send_can_frame *)

\* the command id shifted by 16 instead of 24
ArbitrationId_Shift16(cmd_id, master, motor_id) ==
    BitOr(BitOr(Shl(BitsOf(cmd_id), 16), Shl(BitsOf(master), 8)), BitsOf(motor_id))

\* can_id = (cmd_id << 24) | (self.master_id << 8) | motor_id
ArbitrationId(cmd_id, master, motor_id) ==
    BitOr(BitOr(Shl(BitsOf(cmd_id), 24), Shl(BitsOf(master), 8)), BitsOf(motor_id))

\* a message with a standard (11-bit) identifier
Message_Standard(can_id, data) ==
    [arbitration_id |-> can_id, data |-> data, is_extended_id |-> FALSE]

\* can.Message(arbitration_id=can_id, data=data, is_extended_id=True)
Message(can_id, data) ==
    [arbitration_id |-> can_id, data |-> data, is_extended_id |-> TRUE]

\* a range that runs one attempt too many
InRange_OneMore(attempt, retry) ==
    attempt <= retry

\* for attempt in range(retry): whether the loop body runs for this attempt
InRange(attempt, retry) ==
    attempt < retry

\* an except clause that never takes the early return
LastAttempt_Never(attempt, retry) ==
    FALSE

\* if attempt == retry - 1
LastAttempt(attempt, retry) ==
    attempt = retry - 1

\* an except clause that catches only the very class it names
Catches_SameClassOnly(handler, exc) ==
    handler = exc

\* whether an except clause for the class named handler catches exc: every
\* exception of the model but KeyboardInterrupt derives from Exception
Catches(handler, exc) ==
    IF handler = "Exception" THEN exc # "KeyboardInterrupt" ELSE handler = exc

\* the places of main() inside its try body, inside its except clauses and
\* inside the try of its finally clause
TryBody  == {"ctor", "ctor_opened", "script", "script_wait"}
Handlers == {"except_ki", "except_exc"}
InnerTry == {"shutdown", "shutdown_wait"}

\* where control goes in main() when exc is raised at place, and the
\* exception then in flight
MainCatch(place, exc) ==
    IF place \in TryBody THEN
        IF Catches("KeyboardInterrupt", exc)
        THEN [pc |-> "except_ki", pending |-> "none"]
        ELSE IF Catches("Exception", exc)
        THEN [pc |-> "except_exc", pending |-> "none"]
        ELSE [pc |-> "finally", pending |-> exc]
    ELSE IF place \in Handlers THEN
        [pc |-> "finally", pending |-> exc]
    ELSE IF place \in InnerTry /\ Catches("Exception", exc) THEN
        [pc |-> "shutdown_err", pending |-> pending]
    ELSE
        [pc |-> "raised", pending |-> exc]

\* exc is raised in the running call and not caught by the class: every call
\* of the class is left, and the exception reaches the caller (main(), or
\* the client, which notes it)
Raise(exc) ==
    /\ mv' = NoFrame /\ op' = NoFrame /\ snd' = NoFrame
    /\ IF pc = "client"
       THEN ret' = exc /\ UNCHANGED <<pc, pending>>
       ELSE /\ pc' = MainCatch(pc, exc).pc
            /\ pending' = MainCatch(pc, exc).pending
            /\ ret' = ret

\* the call send_can_frame(cmd_id, motor_id, data, retry): the frame it runs in
SendFrame(cmd_id, motor_id, data, retry) ==
    [fn |-> "send_can_frame", cmd_id |-> cmd_id, motor_id |-> motor_id,
     data |-> data, retry |-> retry,
     msg |-> Message(ArbitrationId(cmd_id, master_id, motor_id), data),
     attempt |-> 0, pc |-> "loop"]

TraceSend(cmd_id, motor_id, data) ==
    [ev |-> "send", cmd_id |-> cmd_id, motor_id |-> motor_id, data |-> data]

TraceShutdown ==
    [ev |-> "shutdown", cmd_id |-> -1, motor_id |-> -1, data |-> <<>>]

\* the bookkeeping of a send_can_frame call that starts now
StatAtEntry(retry) ==
    [retry |-> retry, stub |-> stubLeft, transmits |-> 0, accepted |-> 0,
     settles |-> 0, backoffs |-> 0, done |-> FALSE, result |-> FALSE]

\* the loop head: the next attempt, or the return False after the loop
SendLoop ==
    /\ snd.fn = "send_can_frame" /\ snd.pc = "loop"
    /\ IF InRange(snd.attempt, snd.retry)
       THEN /\ snd' = [snd EXCEPT !.pc = "try"]
            /\ UNCHANGED <<ret, sendStat>>
       ELSE /\ snd' = NoFrame
            /\ ret' = "False"
            /\ sendStat' = [sendStat EXCEPT !.done = TRUE, !.result = FALSE]
    /\ UNCHANGED <<pc, ip, pending, motor, bus, master_id, last_positions, mv,
                   op, wire, trace, busSendCalls, shutdownCalls, stubLeft, calls,
                   enc>>

\* self.bus.send(msg) returns
BusSendOk ==
    /\ snd.fn = "send_can_frame" /\ snd.pc = "try"
    /\ stubLeft <= 0
    /\ busSendCalls' = busSendCalls + 1
    /\ wire' = snd.msg
    /\ sendStat' = [sendStat EXCEPT !.transmits = @ + 1, !.accepted = @ + 1]
    /\ snd' = [snd EXCEPT !.pc = "settle"]
    /\ UNCHANGED <<pc, ip, pending, motor, bus, master_id, last_positions, mv,
                   op, ret, trace, shutdownCalls, stubLeft, calls, enc>>

\* self.bus.send(msg) raises (a can.CanOperationError, say), which the except
\* clause of send_can_frame catches
BusSendFail ==
    /\ snd.fn = "send_can_frame" /\ snd.pc = "try"
    /\ stubLeft # 0
    /\ stubLeft' = IF stubLeft > 0 THEN stubLeft - 1 ELSE stubLeft
    /\ busSendCalls' = busSendCalls + 1
    /\ sendStat' = [sendStat EXCEPT !.transmits = @ + 1]
    /\ IF Catches("Exception", "CanOperationError")
       THEN /\ snd' = [snd EXCEPT !.pc = "except"]
            /\ UNCHANGED <<pc, pending, mv, op, ret>>
       ELSE Raise("CanOperationError")
    /\ UNCHANGED <<ip, motor, bus, master_id, last_positions, wire, trace,
                   shutdownCalls, calls, enc>>

\* time.sleep(0.015); return True
SendSettle ==
    /\ snd.fn = "send_can_frame" /\ snd.pc = "settle"
    /\ snd' = NoFrame
    /\ ret' = "True"
    /\ sendStat' = [sendStat EXCEPT !.settles = @ + 1, !.done = TRUE,
                                     !.result = TRUE]
    /\ UNCHANGED <<pc, ip, pending, motor, bus, master_id, last_positions, mv,
                   op, wire, trace, busSendCalls, shutdownCalls, stubLeft, calls,
                   enc>>

\* the except clause: return False on the last attempt, else
\* time.sleep(0.05) and the next attempt
SendExcept ==
    /\ snd.fn = "send_can_frame" /\ snd.pc = "except"
    /\ IF LastAttempt(snd.attempt, snd.retry)
       THEN /\ snd' = NoFrame
            /\ ret' = "False"
            /\ sendStat' = [sendStat EXCEPT !.done = TRUE, !.result = FALSE]
       ELSE /\ snd' = [snd EXCEPT !.attempt = @ + 1, !.pc = "loop"]
            /\ ret' = ret
            /\ sendStat' = [sendStat EXCEPT !.backoffs = @ + 1]
    /\ UNCHANGED <<pc, ip, pending, motor, bus, master_id, last_positions, mv,
                   op, wire, trace, busSendCalls, shutdownCalls, stubLeft, calls,
                   enc>>

-----------------------------------------------------------------------------
(* The motor operations. *)

\* the operations that are one send_can_frame call and a delay
SendOps ==
    {"enable_motor", "disable_motor", "stop_motor", "reset_position",
     "set_position_control_mode", "set_limit_speed", "set_limit_torque",
     "set_target_position"}

\* the operations that take a float and pack it into the data
FloatOps ==
    {"set_limit_speed", "set_limit_torque", "set_target_position"}

\* the data of the operations without a float
enable_motor_data  == Zeros(8)
disable_motor_data == Zeros(8)
stop_motor_data    == Zeros(8)

\* a reset_position that leaves out the leading 0x01
reset_position_data_NoFlag == Zeros(8)

reset_position_data == <<1>> \o Zeros(7)

\* a mode write that selects mode 2
set_position_control_mode_data_Mode2 == <<5, 112, 0, 0, 2, 0, 0, 0>>

set_position_control_mode_data == <<5, 112, 0, 0, 1, 0, 0, 0>>

\* the four bytes the float operations put before the packed float
set_limit_speed_head     == <<23, 112, 0, 0>>
set_limit_torque_head    == <<24, 112, 0, 0>>

\* the register index of the target position with its high byte first
set_target_position_head_BigEndian == <<112, 22, 0, 0>>

set_target_position_head == <<22, 112, 0, 0>>

\* the cmd_id operation fn passes to send_can_frame
OpCmd(fn) ==
    CASE fn = "enable_motor"   -> CMD_ENABLE
      [] fn = "disable_motor"  -> CMD_DISABLE
      [] fn = "stop_motor"     -> CMD_STOP
      [] fn = "reset_position" -> CMD_RESET
      [] OTHER                 -> CMD_WRITE

\* the data operation fn builds from its argument val, or the error that
\* building it raises
OpData(fn, val) ==
    LET fixed(d) == [err |-> "none", data |-> d]
        packed(head) ==
            [err |-> pack_f(val).err, data |-> head \o pack_f(val).bytes]
    IN  CASE fn = "enable_motor"   -> fixed(enable_motor_data)
          [] fn = "disable_motor"  -> fixed(disable_motor_data)
          [] fn = "stop_motor"     -> fixed(stop_motor_data)
          [] fn = "reset_position" -> fixed(reset_position_data)
          [] fn = "set_position_control_mode" ->
                 fixed(set_position_control_mode_data)
          [] fn = "set_limit_speed"     -> packed(set_limit_speed_head)
          [] fn = "set_limit_torque"    -> packed(set_limit_torque_head)
          [] fn = "set_target_position" -> packed(set_target_position_head)

\* a set_target_position that caches the position whatever its send returned
CacheAfter_Always(fn, motor_id, val, success, cache) ==
    CASE fn = "reset_position" -> DictSet(cache, motor_id, F_zero)
      [] fn = "set_target_position" -> DictSet(cache, motor_id, val)
      [] OTHER -> cache

\* self.last_positions after the send of operation fn returned success
CacheAfter(fn, motor_id, val, success, cache) ==
    CASE fn = "reset_position" -> DictSet(cache, motor_id, F_zero)
      [] fn = "set_target_position" ->
             IF success = "True" THEN DictSet(cache, motor_id, val) ELSE cache
      [] OTHER -> cache

\* what operation fn returns when its send returned success
OpReturn(fn, success) ==
    IF fn = "set_target_position" THEN success ELSE "None"

\* the call fn(motor_id, val): the frame it runs in
OpFrame(fn, motor_id, val) ==
    [fn |-> fn, motor_id |-> motor_id, val |-> val, pc |-> "start"]

\* an operation builds its data and calls send_can_frame with the default retry
OpSend ==
    /\ op.fn \in SendOps /\ op.pc = "start"
    /\ LET d == OpData(op.fn, op.val)
       IN  IF d.err # "none"
           THEN /\ Raise(d.err)
                /\ UNCHANGED <<trace, sendStat>>
           ELSE /\ snd' = SendFrame(OpCmd(op.fn), op.motor_id, d.data,
                                    DEFAULT_RETRY)
                /\ op' = [op EXCEPT !.pc = "sent"]
                /\ trace' = Append(trace,
                                   TraceSend(OpCmd(op.fn), op.motor_id, d.data))
                /\ sendStat' = StatAtEntry(DEFAULT_RETRY)
                /\ UNCHANGED <<pc, pending, mv, ret>>
    /\ UNCHANGED <<ip, motor, bus, master_id, last_positions, wire,
                   busSendCalls, shutdownCalls, stubLeft, calls, enc>>

\* send_can_frame returned: the operation updates the cache, sleeps, returns
OpPost ==
    /\ op.fn \in SendOps /\ op.pc = "sent" /\ snd.fn = "none"
    /\ last_positions' =
           CacheAfter(op.fn, op.motor_id, op.val, ret, last_positions)
    /\ ret' = OpReturn(op.fn, ret)
    /\ op' = NoFrame
    /\ UNCHANGED <<pc, ip, pending, motor, bus, master_id, mv, snd, wire,
                   trace, sendStat, busSendCalls, shutdownCalls, stubLeft, calls,
                   enc>>

\* close(): self.bus.shutdown() returns
CloseOk ==
    /\ op.fn = "close"
    /\ IF bus # "unset"
       THEN /\ bus' = "closed"
            /\ shutdownCalls' = shutdownCalls + 1
            /\ trace' = Append(trace, TraceShutdown)
       ELSE UNCHANGED <<bus, shutdownCalls, trace>>
    /\ op' = NoFrame
    /\ ret' = "None"
    /\ UNCHANGED <<pc, ip, pending, motor, master_id, last_positions, mv, snd,
                   wire, sendStat, busSendCalls, stubLeft, calls, enc>>

\* close(): self.bus.shutdown() raises
CloseFail ==
    /\ op.fn = "close"
    /\ bus # "unset"
    /\ shutdownCalls' = shutdownCalls + 1
    /\ trace' = Append(trace, TraceShutdown)
    /\ Raise("ShutdownError")
    /\ UNCHANGED <<ip, motor, bus, master_id, last_positions, wire, sendStat,
                   busSendCalls, stubLeft, calls, enc>>

\* the call move_to_degrees(motor_id, degrees, speed_rad_s, torque_nm), with
\* radians = math.radians(degrees)
MoveFrame(motor_id, degrees, speed_rad_s, torque_nm) ==
    [fn |-> "move_to_degrees", motor_id |-> motor_id, degrees |-> degrees,
     speed_rad_s |-> speed_rad_s, torque_nm |-> torque_nm,
     radians |-> radians(degrees), step |-> 1]

\* the speed limit set before the torque limit
MoveCalls_SpeedFirst(m) ==
    << OpFrame("set_limit_speed", m.motor_id, m.speed_rad_s),
       OpFrame("set_limit_torque", m.motor_id, m.torque_nm),
       OpFrame("set_target_position", m.motor_id, m.radians) >>

\* the calls move_to_degrees makes, in its order
MoveCalls(m) ==
    << OpFrame("set_limit_torque", m.motor_id, m.torque_nm),
       OpFrame("set_limit_speed", m.motor_id, m.speed_rad_s),
       OpFrame("set_target_position", m.motor_id, m.radians) >>

\* move_to_degrees makes its next call, or returns after the last
MoveStep ==
    /\ mv.fn = "move_to_degrees" /\ op.fn = "none" /\ snd.fn = "none"
    /\ IF mv.step <= Len(MoveCalls(mv))
       THEN /\ op' = MoveCalls(mv)[mv.step]
            /\ mv' = [mv EXCEPT !.step = @ + 1]
            /\ ret' = ret
       ELSE /\ mv' = NoFrame
            /\ op' = op
            /\ ret' = "None"
    /\ UNCHANGED <<pc, ip, pending, motor, bus, master_id, last_positions, snd,
                   wire, trace, sendStat, busSendCalls, shutdownCalls, stubLeft,
                   calls, enc>>

-----------------------------------------------------------------------------
(* main() *)

Call(fn, degrees) ==
    [fn |-> fn, degrees |-> degrees]

\* a script that stops after the third move
Script_ThreeMoves ==
    << Call("enable_motor", 0), Call("reset_position", 0),
       Call("set_position_control_mode", 0),
       Call("move_to_degrees", 15), Call("move_to_degrees", 0),
       Call("move_to_degrees", -15) >>

\* the calls of the try body after the constructor, in order
Script ==
    << Call("enable_motor", 0), Call("reset_position", 0),
       Call("set_position_control_mode", 0),
       Call("move_to_degrees", 15), Call("move_to_degrees", 0),
       Call("move_to_degrees", -15), Call("move_to_degrees", 0) >>

\* a shutdown sequence that closes the bus first
Shutdown_CloseFirst ==
    << Call("close", 0), Call("stop_motor", 0), Call("disable_motor", 0) >>

\* the calls of the shutdown sequence in the finally clause, in order
Shutdown ==
    << Call("stop_motor", 0), Call("disable_motor", 0), Call("close", 0) >>

\* a finally clause that does not test motor
MotorTruthy_Untested ==
    TRUE

\* if motor:
MotorTruthy ==
    motor # "None"

\* the banner is printed, motor = None, the try is entered and the
\* constructor called
MainStart ==
    /\ pc = "start"
    /\ pc' = "ctor"
    /\ UNCHANGED <<ip, pending, motor, bus, master_id, last_positions, mv, op,
                   snd, ret, wire, trace, sendStat, busSendCalls,
                   shutdownCalls, stubLeft, calls, enc>>

\* __init__: can.interface.Bus(...) returns
OpenOk ==
    /\ pc = "ctor"
    /\ bus' = "open"
    /\ pc' = "ctor_opened"
    /\ UNCHANGED <<ip, pending, motor, master_id, last_positions, mv, op, snd,
                   ret, wire, trace, sendStat, busSendCalls, shutdownCalls,
                   stubLeft, calls, enc>>

\* __init__: can.interface.Bus(...) raises, and __init__ raises
\* Exception("Failed to connect to CAN bus: ...")
OpenFail ==
    /\ pc = "ctor"
    /\ pc' = MainCatch(pc, "ConnectError").pc
    /\ pending' = MainCatch(pc, "ConnectError").pending
    /\ UNCHANGED <<ip, motor, bus, master_id, last_positions, mv, op, snd, ret,
                   wire, trace, sendStat, busSendCalls, shutdownCalls, stubLeft,
                   calls, enc>>

\* __init__ sets master_id and last_positions and returns; main() binds motor
CtorReturn ==
    /\ pc = "ctor_opened"
    /\ master_id' = MASTER_ID
    /\ last_positions' = EmptyDict
    /\ motor' = "obj"
    /\ pc' = "script"
    /\ ip' = 1
    /\ UNCHANGED <<pending, bus, mv, op, snd, ret, wire, trace, sendStat,
                   busSendCalls, shutdownCalls, stubLeft, calls, enc>>

\* main() makes the next call of the script or of the shutdown sequence
MainCall ==
    /\ pc \in {"script", "shutdown"} /\ Idle
    /\ LET c == IF pc = "script" THEN Script[ip] ELSE Shutdown[ip]
       IN  IF c.fn = "move_to_degrees"
           THEN /\ mv' = MoveFrame(MOTOR_ID, c.degrees, SPEED, MAX_TORQUE)
                /\ op' = op
           ELSE /\ op' = OpFrame(c.fn, MOTOR_ID, F_zero)
                /\ mv' = mv
    /\ pc' = IF pc = "script" THEN "script_wait" ELSE "shutdown_wait"
    /\ UNCHANGED <<ip, pending, motor, bus, master_id, last_positions, snd,
                   ret, wire, trace, sendStat, busSendCalls, shutdownCalls,
                   stubLeft, calls, enc>>

\* the call returned: main() sleeps and goes on to the next call; after the
\* last call of the script to the finally clause, after the last call of the
\* shutdown sequence to the closing banner
MainNext ==
    /\ pc \in {"script_wait", "shutdown_wait"} /\ Idle
    /\ IF pc = "script_wait"
       THEN IF ip < Len(Script)
            THEN pc' = "script" /\ ip' = ip + 1
            ELSE pc' = "finally" /\ ip' = ip
       ELSE IF ip < Len(Shutdown)
            THEN pc' = "shutdown" /\ ip' = ip + 1
            ELSE pc' = "ended" /\ ip' = ip
    /\ UNCHANGED <<pending, motor, bus, master_id, last_positions, mv, op, snd,
                   ret, wire, trace, sendStat, busSendCalls, shutdownCalls,
                   stubLeft, calls, enc>>

\* an except clause of main() prints its message; the finally clause follows
MainHandler ==
    /\ pc \in Handlers
    /\ pc' = "finally"
    /\ UNCHANGED <<ip, pending, motor, bus, master_id, last_positions, mv, op,
                   snd, ret, wire, trace, sendStat, busSendCalls,
                   shutdownCalls, stubLeft, calls, enc>>

\* finally: if motor: the shutdown sequence, else straight to the banner
MainFinally ==
    /\ pc = "finally"
    /\ IF MotorTruthy
       THEN pc' = "shutdown" /\ ip' = 1
       ELSE pc' = "ended" /\ ip' = ip
    /\ UNCHANGED <<pending, motor, bus, master_id, last_positions, mv, op, snd,
                   ret, wire, trace, sendStat, busSendCalls, shutdownCalls,
                   stubLeft, calls, enc>>

\* except Exception as shutdown_error: the error is printed
MainShutdownError ==
    /\ pc = "shutdown_err"
    /\ pc' = "ended"
    /\ UNCHANGED <<ip, pending, motor, bus, master_id, last_positions, mv, op,
                   snd, ret, wire, trace, sendStat, busSendCalls,
                   shutdownCalls, stubLeft, calls, enc>>

\* "Program ended" is printed, the finally clause ends: main() returns, or
\* the exception in flight leaves main()
MainEnd ==
    /\ pc = "ended"
    /\ pc' = IF pending = "none" THEN "returned" ELSE "raised"
    /\ UNCHANGED <<ip, pending, motor, bus, master_id, last_positions, mv, op,
                   snd, ret, wire, trace, sendStat, busSendCalls,
                   shutdownCalls, stubLeft, calls, enc>>

\* main() is running: it has neither returned nor raised
Running ==
    pc \in {"start", "finally", "shutdown_err", "ended"}
            \cup TryBody \cup Handlers \cup InnerTry

\* a KeyboardInterrupt is raised in the main thread, wherever it is
Interrupt ==
    /\ Running
    /\ mv' = NoFrame /\ op' = NoFrame /\ snd' = NoFrame
    /\ pc' = MainCatch(pc, "KeyboardInterrupt").pc
    /\ pending' = MainCatch(pc, "KeyboardInterrupt").pending
    /\ UNCHANGED <<ip, motor, bus, master_id, last_positions, ret, wire, trace,
                   sendStat, busSendCalls, shutdownCalls, stubLeft, calls, enc>>

InitShared ==
    /\ ip = 0
    /\ pending = "none"
    /\ mv = NoFrame /\ op = NoFrame /\ snd = NoFrame
    /\ ret = "None"
    /\ wire = NoMsg
    /\ trace = <<>>
    /\ sendStat = NoStat
    /\ busSendCalls = 0
    /\ shutdownCalls = 0
    /\ calls = 0
    /\ enc = NoEnc

\* the state in which main() is called
Init ==
    /\ InitShared
    /\ pc = "start"
    /\ motor = "None"
    /\ bus = "unset"
    /\ master_id = 0
    /\ last_positions = EmptyDict
    /\ stubLeft = -1

\* the steps of the class, shared by every client of it
ClassNext ==
    \/ SendLoop \/ BusSendOk \/ BusSendFail \/ SendSettle \/ SendExcept
    \/ OpSend \/ OpPost \/ CloseOk \/ CloseFail \/ MoveStep

Next ==
    \/ ClassNext
    \/ MainStart \/ OpenOk \/ OpenFail \/ CtorReturn \/ MainCall \/ MainNext
    \/ MainHandler \/ MainFinally \/ MainShutdownError \/ MainEnd
    \/ Interrupt

\* main() under any transport failures and interruptions
Spec == Init /\ [][Next]_vars

\* the steps of main() when no KeyboardInterrupt arrives
NextUninterrupted ==
    \/ ClassNext
    \/ MainStart \/ OpenOk \/ OpenFail \/ CtorReturn \/ MainCall \/ MainNext
    \/ MainHandler \/ MainFinally \/ MainShutdownError \/ MainEnd

\* main() under any transport failures, never interrupted
SpecUninterrupted == Init /\ [][NextUninterrupted]_vars

-----------------------------------------------------------------------------
(* A client of the class: any calls of its methods, on a constructed object, *)
(* over a transport that fails at will or on its first stubLeft calls.          *)

MotorIds == {1, 127}
Floats   == {F_zero, F_2, F_12, F_rad15, F_negrad15, F_1e39}
Degrees  == {-15, 0, 15}
CmdIds   == {CMD_STOP, CMD_ENABLE, CMD_WRITE}

\* a top-level call begins: what the client has noted of the last is reset
ClientBegin ==
    /\ pc = "client" /\ Idle
    /\ calls < MaxCalls
    /\ calls' = calls + 1
    /\ wire' = NoMsg
    /\ ret' = "None"
    /\ busSendCalls' = 0

ClientOp(fn, m, v) ==
    /\ ClientBegin
    /\ op' = OpFrame(fn, m, v)
    /\ trace' = <<>>
    /\ sendStat' = NoStat
    /\ UNCHANGED <<pc, ip, pending, motor, bus, master_id, last_positions, mv,
                   snd, shutdownCalls, stubLeft, enc>>

ClientMove(m, degrees, speed, torque) ==
    /\ ClientBegin
    /\ mv' = MoveFrame(m, degrees, speed, torque)
    /\ trace' = <<>>
    /\ sendStat' = NoStat
    /\ UNCHANGED <<pc, ip, pending, motor, bus, master_id, last_positions, op,
                   snd, shutdownCalls, stubLeft, enc>>

ClientSend(cmd_id, m, retry) ==
    /\ ClientBegin
    /\ snd' = SendFrame(cmd_id, m, Zeros(8), retry)
    /\ trace' = <<TraceSend(cmd_id, m, Zeros(8))>>
    /\ sendStat' = StatAtEntry(retry)
    /\ UNCHANGED <<pc, ip, pending, motor, bus, master_id, last_positions, mv,
                   op, shutdownCalls, stubLeft, enc>>

InitOps ==
    /\ InitShared
    /\ pc = "client"
    /\ motor = "obj"
    /\ bus = "open"
    /\ master_id = MASTER_ID
    /\ last_positions = EmptyDict
    /\ stubLeft \in -1..MaxFail

NextOps ==
    \/ ClassNext
    \/ \E fn \in SendOps \ FloatOps, m \in MotorIds : ClientOp(fn, m, F_zero)
    \/ \E fn \in FloatOps, m \in MotorIds, v \in Floats : ClientOp(fn, m, v)
    \/ ClientOp("close", 0, F_zero)
    \/ \E m \in MotorIds, d \in Degrees, v \in {F_2, F_5} :
           ClientMove(m, d, v, F_12)
    \/ \E c \in CmdIds, m \in MotorIds, r \in 0..MaxRetry : ClientSend(c, m, r)

\* the class under any client
SpecOps == InitOps /\ [][NextOps]_vars

-----------------------------------------------------------------------------
(* The arbitration id over the whole range of its three fields. *)

EncCmds   == {0, 1, 18, 128, 255}
EncCtrls  == {0, 1, 253, 255, 256, 65535}
EncMotors == {0, 1, 127, 128, 255}

\* the id of the triple is computed as send_can_frame computes it
EncodeId ==
    /\ pc = "enc" /\ ~enc.done
    /\ enc' = [enc EXCEPT !.id = ArbitrationId(enc.cmd, enc.ctrl, enc.motor),
                          !.done = TRUE]
    /\ UNCHANGED <<pc, ip, pending, motor, bus, master_id, last_positions, mv,
                   op, snd, ret, wire, trace, sendStat, busSendCalls,
                   shutdownCalls, stubLeft, calls>>

InitEnc ==
    /\ ip = 0 /\ pending = "none"
    /\ mv = NoFrame /\ op = NoFrame /\ snd = NoFrame
    /\ ret = "None" /\ wire = NoMsg /\ trace = <<>> /\ sendStat = NoStat
    /\ busSendCalls = 0 /\ shutdownCalls = 0 /\ calls = 0
    /\ pc = "enc"
    /\ motor = "obj"
    /\ bus = "open"
    /\ master_id = MASTER_ID
    /\ last_positions = EmptyDict
    /\ stubLeft = -1
    /\ enc \in [cmd : EncCmds, ctrl : EncCtrls, motor : EncMotors, id : {{}},
                 done : {FALSE}]

NextEnc ==
    EncodeId

SpecEnc == InitEnc /\ [][NextEnc]_vars

-----------------------------------------------------------------------------
(* The claims. *)

\* C1: over a transport that fails on exactly its next N transmit calls and
\* succeeds afterwards, a finished send_can_frame(..., retry) has returned
\* True after exactly N + 1 calls of bus.send if retry > N, and False after
\* exactly retry calls if retry <= N
C1_RetryCount ==
    (sendStat.done /\ sendStat.stub >= 0) =>
        IF sendStat.retry > sendStat.stub
        THEN sendStat.result /\ sendStat.transmits = sendStat.stub + 1
        ELSE ~sendStat.result /\ sendStat.transmits = sendStat.retry

\* a send that succeeded after N >= 1 failed attempts
C1_Witness ==
    /\ sendStat.done /\ sendStat.stub >= 1
    /\ sendStat.retry > sendStat.stub
    /\ sendStat.transmits = sendStat.stub + 1

\* C2: no error of bus.send leaves send_can_frame: whenever a call of
\* send_can_frame ends, it has returned a boolean, True exactly when bus.send
\* accepted a frame during the call, and its caller goes on
C2_NoTransportErrorEscapes ==
    [][(snd.fn = "send_can_frame" /\ snd'.fn = "none") =>
          /\ ret' \in {"True", "False"}
          /\ (ret' = "True") <=> (sendStat'.accepted > 0)
          /\ sendStat'.done
          /\ op' = op /\ mv' = mv /\ pc' = pc]_vars

\* a send that returned False after every one of its attempts failed
C2_Witness ==
    /\ snd.fn = "none" /\ sendStat.done /\ ret = "False"
    /\ sendStat.transmits = sendStat.retry /\ sendStat.retry >= 3
    /\ sendStat.accepted = 0

\* main() has ended and the last three calls it made are the shutdown
\* sequence
ShutdownAttempted ==
    /\ Len(trace) >= 3
    /\ SubSeq(trace, Len(trace) - 2, Len(trace)) =
           << TraceSend(0, MOTOR_ID, <<0, 0, 0, 0, 0, 0, 0, 0>>),
              TraceSend(4, MOTOR_ID, <<0, 0, 0, 0, 0, 0, 0, 0>>),
              TraceShutdown >>

\* C3: whenever the bus was opened, main() does not end before it has
\* attempted the shutdown sequence: the send of the stop frame, the send of
\* the disable frame, the close of the bus, in this order
C3_ShutdownAlwaysAttempted ==
    (bus # "unset" /\ pc \in {"returned", "raised"}) => ShutdownAttempted

\* C3, what holds of the code: a main() that returns after binding motor has
\* attempted the whole sequence, whatever sends failed
C3_ShutdownWhenReturned ==
    (motor = "obj" /\ pc = "returned") => ShutdownAttempted

\* C4: in a state in which the shutdown sequence has started, no step lets an
\* error propagate out of main()
C4_ShutdownNeverRaises ==
    [][(pc \in InnerTry \cup {"shutdown_err"} \/ (pc = "ended" /\ MotorTruthy))
          => pc' # "raised"]_vars

\* C4, what holds of the code: an error of the shutdown sequence that
\* leaves main() is a KeyboardInterrupt, never a failure of bus.shutdown
C4_OnlyInterruptLeaves ==
    pc = "raised" => pending = "KeyboardInterrupt"

\* C5: when the constructor has raised (motor is still None after it),
\* bus.send and bus.shutdown are never called: not by the script, not by the
\* shutdown sequence
C5_NoCommandWithoutBus ==
    (motor = "None" /\ pc \notin {"start", "ctor", "ctor_opened"}) =>
        /\ busSendCalls = 0 /\ shutdownCalls = 0
        /\ trace = <<>> /\ Idle

\* main() has returned after the bus failed to open
C5_Witness ==
    motor = "None" /\ bus = "unset" /\ pc = "returned"

\* the i-th write of a move: command 0x12 to motor_id, register index reg
\* low byte first, two zero bytes, the packed value
IsWrite(t, motor_id, reg, val) ==
    /\ t.ev = "send" /\ t.cmd_id = 18 /\ t.motor_id = motor_id
    /\ Len(t.data) = 8
    /\ SubSeq(t.data, 1, 4) = <<reg % 256, reg \div 256, 0, 0>>
    /\ SubSeq(t.data, 5, 8) = pack_f(val).bytes

\* C6: a move_to_degrees that returns has made exactly three send_can_frame
\* calls: the torque limit (0x7018), the speed limit (0x7017), the target
\* position (0x7016), in this order, all to its motor, whatever the
\* transport did
C6_MoveIssuesThreeWrites ==
    [][(mv.fn = "move_to_degrees" /\ mv'.fn = "none") =>
          /\ Len(trace') = 3
          /\ IsWrite(trace'[1], mv.motor_id, 28696, mv.torque_nm)
          /\ IsWrite(trace'[2], mv.motor_id, 28695, mv.speed_rad_s)
          /\ IsWrite(trace'[3], mv.motor_id, 28694, radians(mv.degrees))]_vars

\* a move has returned after each of its three writes failed three times
C6_Witness ==
    /\ pc = "client" /\ Idle /\ Len(trace) = 3
    /\ trace[3].data[1] = 22 /\ trace[1].data[1] = 24
    /\ busSendCalls = 9 /\ wire = NoMsg

\* the triple an arbitration id decodes to: id >> 24, (id >> 8) & 0xFFFF,
\* id & 0xFF
DecodeId(id) ==
    << ValueOf(Shr(id, 24)),
       ValueOf(BitAnd(Shr(id, 8), BitsOf(65535))),
       ValueOf(BitAnd(id, BitsOf(255))) >>

\* C7: the arbitration id of a triple in range decodes back to the triple,
\* and under the controller address 0x00FD no other (command id, motor
\* address) pair has the same id
C7_IdRoundTrip ==
    enc.done =>
        /\ DecodeId(enc.id) = <<enc.cmd, enc.ctrl, enc.motor>>
        /\ enc.ctrl = 253 =>
               \A c \in EncCmds, m \in EncMotors :
                   ArbitrationId(c, master_id, m) = enc.id =>
                       c = enc.cmd /\ m = enc.motor

\* the id of the largest triple has been computed
C7_Witness ==
    enc.done /\ enc.cmd = 255 /\ enc.ctrl = 65535 /\ enc.motor = 255

Last(q) ==
    q[Len(q)]

\* operation fn has called send_can_frame, which is running
Sending(fn) ==
    op.fn = fn /\ op.pc = "sent" /\ snd.fn = "send_can_frame"

\* the running send_can_frame was given cmd_id, the motor of the operation
\* and data, and its message carries them
FrameIs(cmd_id, data) ==
    /\ snd.cmd_id = cmd_id /\ snd.motor_id = op.motor_id
    /\ snd.msg.data = data
    /\ DecodeId(snd.msg.arbitration_id) = <<cmd_id, 253, op.motor_id>>
    /\ Last(trace) = TraceSend(cmd_id, op.motor_id, data)

\* C8 as claimed: the mode write has command id 0x12, register index 0x7005
\* in bytes 0-1, zero bytes 2-3 and bytes 4-7 equal to 0x00,0x00,0x01,0x00
C8_ModeFrameAsClaimed ==
    Sending("set_position_control_mode") =>
        FrameIs(18, <<5, 112, 0, 0, 0, 0, 1, 0>>)

\* C8 as amended: the mode write has command id 0x12, register index 0x7005
\* in bytes 0-1, zero bytes 2-3 and bytes 4-7 equal to 0x01,0x00,0x00,0x00
C8_ModeFrame ==
    Sending("set_position_control_mode") =>
        FrameIs(18, <<5, 112, 0, 0, 1, 0, 0, 0>>)

\* the mode write to motor 127 is being sent
C8_Witness ==
    Sending("set_position_control_mode") /\ op.motor_id = 127

\* C9: for every motor, enable sends command id 0x03, disable 0x04 and stop
\* 0x00, each with eight zero bytes, and zero-position sends 0x06 with
\* 0x01 followed by seven zero bytes
C9_FixedFrames ==
    /\ Sending("enable_motor")  => FrameIs(3, <<0, 0, 0, 0, 0, 0, 0, 0>>)
    /\ Sending("disable_motor") => FrameIs(4, <<0, 0, 0, 0, 0, 0, 0, 0>>)
    /\ Sending("stop_motor")    => FrameIs(0, <<0, 0, 0, 0, 0, 0, 0, 0>>)
    /\ Sending("reset_position") => FrameIs(6, <<1, 0, 0, 0, 0, 0, 0, 0>>)

\* the zero-position frame to motor 127 is being sent
C9_Witness ==
    Sending("reset_position") /\ op.motor_id = 127

\* the running send of a float operation carries a write of val to reg
WriteIs(reg, val) ==
    /\ IsWrite(Last(trace), op.motor_id, reg, val)
    /\ snd.msg.data = Last(trace).data
    /\ DecodeId(snd.msg.arbitration_id) = <<18, 253, op.motor_id>>

\* C10: the speed-limit, torque-limit and target-position writes have
\* command id 0x12 and data made of the register index (0x7017, 0x7018,
\* 0x7016) low byte first, two zero bytes and the four bytes of the value;
\* a target-position write to motor 1 has the id 0x1200FD01 and data that
\* starts 0x16,0x70,0x00,0x00
C10_WriteFrames ==
    /\ Sending("set_limit_speed")  => WriteIs(28695, op.val)
    /\ Sending("set_limit_torque") => WriteIs(28696, op.val)
    /\ Sending("set_target_position") =>
           /\ WriteIs(28694, op.val)
           /\ op.motor_id = 1 =>
                  /\ snd.msg.arbitration_id = BitsOf(302054657)
                  /\ SubSeq(snd.msg.data, 1, 4) = <<22, 112, 0, 0>>
           /\ op.val = F_rad15 =>
                  SubSeq(snd.msg.data, 5, 8) = <<146, 10, 134, 62>>

\* the target position 0.2617993877991494 is being written to motor 1
C10_Witness ==
    Sending("set_target_position") /\ op.motor_id = 1 /\ op.val = F_rad15

\* a message as the transport must be given it: an extended identifier below
\* 2^29 and exactly eight data bytes
ExtendedFrame(m) ==
    /\ m.is_extended_id
    /\ \A i \in m.arbitration_id : i < 29
    /\ Len(m.data) = 8
    /\ \A i \in 1..Len(m.data) : m.data[i] \in 0..255

\* C11: every message a motor operation has send_can_frame hand to bus.send,
\* for the motor addresses 1 and 127, and every message bus.send accepted,
\* has an extended identifier below 2^29 and exactly 8 data bytes
C11_ExtendedFrames ==
    /\ (snd.fn = "send_can_frame" /\ op.fn \in SendOps) =>
           ExtendedFrame(snd.msg)
    /\ wire # NoMsg => ExtendedFrame(wire)

\* bus.send accepted a float write to motor 127, the largest command id to
\* the largest motor address
C11_Witness ==
    /\ Sending("set_limit_torque") /\ op.motor_id = 127 /\ snd.pc = "settle"
    /\ wire = snd.msg /\ wire.arbitration_id = BitsOf(18 * 16777216 + 64895)

\* C12: within one send the pauses follow the transmits: after an accepted
\* transmit the next step is the settle pause and the return of True, with
\* no further transmit; after a failed transmit the next step is one backoff
\* pause and a further attempt if attempts remain, and the return of False
\* without a pause if none remain; so a finished send whose retry >= 1
\* transmits all failed has made retry - 1 backoff pauses and no settle
\* pause and returned False
C12_PausesFollowTransmits ==
    /\ [][/\ (snd.fn = "send_can_frame" /\ snd.pc = "settle") =>
              /\ snd'.fn = "none" /\ ret' = "True"
              /\ sendStat'.settles = sendStat.settles + 1
              /\ sendStat'.backoffs = sendStat.backoffs
              /\ sendStat'.transmits = sendStat.transmits
          /\ (snd.fn = "send_can_frame" /\ snd.pc = "except") =>
              IF snd.attempt + 1 < snd.retry
              THEN /\ snd'.fn = "send_can_frame" /\ snd'.pc = "loop"
                   /\ snd'.attempt = snd.attempt + 1
                   /\ sendStat'.backoffs = sendStat.backoffs + 1
                   /\ sendStat'.settles = sendStat.settles
              ELSE /\ snd'.fn = "none" /\ ret' = "False"
                   /\ sendStat'.backoffs = sendStat.backoffs
                   /\ sendStat'.settles = sendStat.settles]_<<snd, sendStat>>
    /\ [](sendStat.done =>
             /\ sendStat.settles = sendStat.accepted
             /\ sendStat.accepted <= 1
             /\ sendStat.result <=> (sendStat.accepted = 1)
             /\ sendStat.result =>
                    sendStat.backoffs = sendStat.transmits - 1
             /\ (~sendStat.result /\ sendStat.retry >= 1) =>
                    /\ sendStat.transmits = sendStat.retry
                    /\ sendStat.backoffs = sendStat.retry - 1
                    /\ sendStat.settles = 0)

\* a send with four attempts has returned False after three backoff pauses
C12_Witness ==
    /\ sendStat.done /\ ~sendStat.result /\ sendStat.retry = 4
    /\ sendStat.transmits = 4 /\ sendStat.backoffs = 3
    /\ sendStat.settles = 0 /\ ret = "False"

\* the position of the highest 1 bit of n, for 0 < n < 2^23
TopBit(n) ==
    CHOOSE p \in 0..22 : 2^p <= n /\ n < 2^(p + 1)

\* the float that four little-endian bytes of an IEEE-754 single decode to
\* (struct.unpack('<f', bytes)): a single is exactly a double
unpack_f(bytes) ==
    LET s   == bytes[4] \div 128
        e8  == (bytes[4] % 128) * 2 + bytes[3] \div 128
        m23 == (bytes[3] % 128) * 65536 + bytes[2] * 256 + bytes[1]
    IN  IF e8 = 255 THEN Dbl(s, 2047, m23 * 8, 0)
        ELSE IF e8 = 0 /\ m23 = 0 THEN Dbl(s, 0, 0, 0)
        ELSE IF e8 = 0 THEN
            LET p == TopBit(m23)
            IN  Dbl(s, 874 + p, (m23 - 2^p) * 2^(26 - p), 0)
        ELSE Dbl(s, e8 + 896, m23 * 8, 0)

\* a double that is exactly a normal single, a zero or an infinity
IsSingle(v) ==
    \/ v.e = 0 /\ v.hi = 0 /\ v.lo = 0
    \/ v.e = 2047 /\ v.hi = 0 /\ v.lo = 0
    \/ v.e \in 897..1150 /\ v.hi % 8 = 0 /\ v.lo = 0

\* C13: for every float v given to the speed-limit, torque-limit and
\* target-position writes, bytes 4-7 of the data decode to v exactly, and
\* no such write raises instead of encoding
C13_FloatRoundTrip ==
    /\ \A fn \in FloatOps :
           Sending(fn) => unpack_f(SubSeq(snd.msg.data, 5, 8)) = op.val
    /\ ret # "OverflowError"

\* C13, what holds of the code: bytes 4-7 are the single nearest to v, low
\* byte first, and decode to v exactly when v is itself a single
C13_ExactForSingles ==
    /\ \A fn \in FloatOps :
           Sending(fn) =>
               /\ SubSeq(snd.msg.data, 5, 8) = pack_f(op.val).bytes
               /\ IsSingle(unpack_f(SubSeq(snd.msg.data, 5, 8)))
               /\ IsSingle(op.val) =>
                      unpack_f(SubSeq(snd.msg.data, 5, 8)) = op.val

\* the three sends of a move of motor 1 with torque 12.0 and speed 2.0 to
\* the position whose single is pos
MoveSends(pos) ==
    << TraceSend(18, 1, <<24, 112, 0, 0, 0, 0, 64, 65>>),
       TraceSend(18, 1, <<23, 112, 0, 0, 0, 0, 0, 64>>),
       TraceSend(18, 1, <<22, 112, 0, 0>> \o pos) >>

\* the whole command sequence of main(): enable, zero-position, position
\* mode, the moves to 15, 0, -15 and 0 degrees, stop, disable, close
FullSequence ==
    << TraceSend(3, 1, <<0, 0, 0, 0, 0, 0, 0, 0>>),
       TraceSend(6, 1, <<1, 0, 0, 0, 0, 0, 0, 0>>),
       TraceSend(18, 1, <<5, 112, 0, 0, 1, 0, 0, 0>>) >>
    \o MoveSends(<<146, 10, 134, 62>>) \o MoveSends(<<0, 0, 0, 0>>)
    \o MoveSends(<<146, 10, 134, 190>>) \o MoveSends(<<0, 0, 0, 0>>)
    \o << TraceSend(0, 1, <<0, 0, 0, 0, 0, 0, 0, 0>>),
          TraceSend(4, 1, <<0, 0, 0, 0, 0, 0, 0, 0>>),
          TraceShutdown >>

\* C14: when no interruption arrives, the calls main() has made are at every
\* moment the first calls of the full sequence, whatever sends returned
\* False, and a main() that has ended after the bus opened has made them
\* all; no error leaves main()
C14_FullSequenceAttempted ==
    /\ Len(trace) <= Len(FullSequence)
    /\ trace = SubSeq(FullSequence, 1, Len(trace))
    /\ (bus # "unset" /\ pc \in {"ended", "returned", "raised"}) =>
           trace = FullSequence
    /\ pc # "raised"

\* main() has returned after every transmit of every send failed
C14_Witness ==
    /\ pc = "returned" /\ trace = FullSequence
    /\ busSendCalls = 51 /\ wire = NoMsg

\* operation fn returns in this step, after its send has returned
Returns(fn) ==
    op.fn = fn /\ op.pc = "sent" /\ op'.fn = "none"

\* the cache after the step is the cache before it with motor_id set to val
\* and every other entry as it was
CacheSet(motor_id, val) ==
    /\ DOMAIN last_positions' = DOMAIN last_positions \cup {motor_id}
    /\ last_positions'[motor_id] = val
    /\ \A k \in DOMAIN last_positions \ {motor_id} :
           last_positions'[k] = last_positions[k]

\* C15: set_target_position(motor, radians) returns the boolean its send
\* returned; if that is True the cache has radians for motor and every other
\* entry unchanged, if it is False the cache is unchanged altogether
C15_TargetPositionCache ==
    [][Returns("set_target_position") =>
          /\ sendStat.done /\ ret \in {"True", "False"}
          /\ (ret = "True") <=> sendStat.result
          /\ ret' = ret
          /\ IF ret = "True"
             THEN CacheSet(op.motor_id, op.val)
             ELSE last_positions' = last_positions]_vars

\* a target-position write to motor 1 has failed on all its attempts and
\* the cache still has the position written before
C15_Witness ==
    /\ pc = "client" /\ Idle /\ calls = 2 /\ ret = "False"
    /\ Len(trace) = 1 /\ trace[1].motor_id = 1
    /\ SubSeq(trace[1].data, 1, 4) = <<22, 112, 0, 0>>
    /\ SubSeq(trace[1].data, 5, 8) = <<0, 0, 0, 64>>
    /\ DOMAIN last_positions = {1} /\ last_positions[1] = F_rad15

\* C16: a position-affecting command (zero-position, target-position write)
\* whose send returned False leaves the cache as it was, so that the cache
\* holds the position of the last such command that was accepted
C16_FailedSendKeepsCache ==
    [][(Returns("reset_position") \/ Returns("set_target_position")) =>
          (ret = "False" => last_positions' = last_positions)]_vars

\* C16, what holds of the code: a zero-position command caches 0.0 for its
\* motor whatever its send returned, and leaves every other entry as it was
C16_ResetCachesAlways ==
    [][Returns("reset_position") => CacheSet(op.motor_id, F_zero)]_vars

\* C17: in every execution of main() bus.shutdown is called at most once,
\* and once it has been called bus.send is not called again
C17_NoUseAfterClose ==
    /\ [](shutdownCalls <= 1)
    /\ [][shutdownCalls >= 1 =>
             /\ busSendCalls' = busSendCalls
             /\ shutdownCalls' = shutdownCalls
             /\ snd' = NoFrame]_vars

\* main() was interrupted in its script, has closed the bus after failed
\* transmits and has returned
C17_Witness ==
    /\ pc = "returned" /\ shutdownCalls = 1 /\ bus = "closed"
    /\ Last(trace) = TraceShutdown /\ Len(trace) < 10
    /\ busSendCalls > Len(trace)

====
